---- MODULE Spec2Model ----
(***************************************************************************)
(* Model of examples/mwi.js: the message-waiting-indication example of the *)
(* ARI client.  One closure per connection holds the shared counter        *)
(* `messages`; every channel that enters Stasis gets a DTMF listener and   *)
(* an answer command; every callback of the file is one action.  The ARI   *)
(* server is the environment: it completes each issued command (with or    *)
(* without an error) and emits the PlaybackFinished / RecordingFinished    *)
(* events the callbacks listen to.                                         *)
(***************************************************************************)
EXTENDS Integers, Sequences, FiniteSets, Bags, TLC

\* ---------------------------------------------------------------- bounds
MaxChannels == 2
MaxDtmf == 2
MaxStored == 1

Channels == 1..MaxChannels
Digits == {"5", "6", "1"}
Kinds == {"answer", "play_leavemsg", "play_next", "record", "play_msgsaved",
          "update", "hangup", "listStored", "play_nomore", "play_recording",
          "deleteStored"}

\* commands addressed to the channel itself: they fail once it is hung up
ChannelKinds == {"answer", "play_leavemsg", "play_next", "record",
                 "play_msgsaved", "hangup", "play_nomore", "play_recording"}

VARIABLES
    messages,   \* var messages (line 38), shared by all channels
    store,      \* stored recordings of the server, most recent last
    nextId,     \* names handed out by ari.LiveRecording()
    started,    \* channels whose StasisStart was handled (DTMF listener on)
    gone,       \* channels whose hangup the server has carried out
    crashed,    \* an exception escaped a callback and ended the process
    pending,    \* bag of commands issued and not yet completed
    issued,     \* per channel and kind, how many commands were issued
    dtmf,       \* per channel and digit, how many digits were received
    failed,     \* channels one of whose commands completed with an error
    deltas,     \* log of the +1 / -1 applied to messages, in order
    updates     \* log of the mailbox.update calls, in order

vars == <<messages, store, nextId, started, gone, crashed, pending, issued,
          dtmf, failed, deltas, updates>>

\* ---------------------------------------------------------------- helpers
One(it) == SetToBag({it})

\* a command as the server sees it (arg: the recording name of record,
\* play_recording and deleteStored, the newMessages of update, 0 otherwise);
\* a channel command issued on a channel that is already hung up can only be
\* answered with an error
Item(c, k, a) ==
    [ch |-> c, kind |-> k, arg |-> a, dead |-> (k \in ChannelKinds /\ gone[c])]

Bump(iss, c, k) == [iss EXCEPT ![c][k] = @ + 1]

MarkFailed(c, err) == IF err THEN [failed EXCEPT ![c] = TRUE] ELSE failed

RECURSIVE SumDeltas(_)
SumDeltas(s) ==
    IF s = <<>> THEN 0 ELSE s[Len(s)].d + SumDeltas(SubSeq(s, 1, Len(s) - 1))

RECURSIVE DtmfCount(_)
DtmfCount(S) ==
    IF S = {} THEN 0
    ELSE LET c == CHOOSE x \in S : TRUE
         IN dtmf[c]["5"] + dtmf[c]["6"] + dtmf[c]["1"] + DtmfCount(S \ {c})

RemoveName(s, n) == SelectSeq(s, LAMBDA x : x # n)

InStore(n) == \E i \in 1..Len(store) : store[i] = n

\* the server answers a pending command, with an error or without
Completes(it, k, err) ==
    /\ ~crashed
    /\ BagIn(it, pending)
    /\ it.kind = k
    /\ it.dead => err

\* ---------------------------------------------------------------- Init
Init ==
    /\ messages = 0
    /\ \E k \in 0..MaxStored :
          /\ store = [i \in 1..k |-> i]
          /\ nextId = k + 1
    /\ started = [c \in Channels |-> FALSE]
    /\ gone = [c \in Channels |-> FALSE]
    /\ crashed = FALSE
    /\ pending = EmptyBag
    /\ issued = [c \in Channels |-> [k \in Kinds |-> 0]]
    /\ dtmf = [c \in Channels |-> [d \in Digits |-> 0]]
    /\ failed = [c \in Channels |-> FALSE]
    /\ deltas = <<>>
    /\ updates = <<>>

\* ---------------------------------------------------------------- actions

\* StasisStart (lines 52-254): register the DTMF listener, answer the channel
stasisStartCallback(c) ==
    /\ ~crashed
    /\ ~started[c]
    /\ started' = [started EXCEPT ![c] = TRUE]
    /\ pending' = pending (+) One(Item(c, "answer", 0))
    /\ issued' = Bump(issued, c, "answer")
    /\ UNCHANGED <<messages, store, nextId, gone, crashed, dtmf, failed,
                   deltas, updates>>

\* channelDtmfReceivedCallback that serves only the first '5' or '6' of a
\* channel and drops every later one
channelDtmfReceivedCallback_once(c, digit) ==
    /\ ~crashed
    /\ started[c]
    /\ ~gone[c]
    /\ DtmfCount(Channels) < MaxDtmf
    /\ dtmf' = [dtmf EXCEPT ![c][digit] = @ + 1]
    /\ CASE digit = "5" /\ dtmf[c]["5"] + dtmf[c]["6"] = 0 ->
              /\ pending' = pending (+) One(Item(c, "record", nextId))
              /\ issued' = Bump(issued, c, "record")
              /\ nextId' = nextId + 1
         [] digit = "6" /\ dtmf[c]["5"] + dtmf[c]["6"] = 0 ->
              /\ pending' = pending (+) One(Item(c, "listStored", 0))
              /\ issued' = Bump(issued, c, "listStored")
              /\ nextId' = nextId
         [] OTHER ->
              UNCHANGED <<pending, issued, nextId>>
    /\ UNCHANGED <<messages, store, started, gone, crashed, failed, deltas,
                   updates>>

\* channelDtmfReceivedCallback whose switch sends every digit but '5' to the
\* '6' case
channelDtmfReceivedCallback_fallthrough(c, digit) ==
    /\ ~crashed
    /\ started[c]
    /\ ~gone[c]
    /\ DtmfCount(Channels) < MaxDtmf
    /\ dtmf' = [dtmf EXCEPT ![c][digit] = @ + 1]
    /\ CASE digit = "5" ->
              /\ pending' = pending (+) One(Item(c, "record", nextId))
              /\ issued' = Bump(issued, c, "record")
              /\ nextId' = nextId + 1
         [] OTHER ->
              /\ pending' = pending (+) One(Item(c, "listStored", 0))
              /\ issued' = Bump(issued, c, "listStored")
              /\ nextId' = nextId
    /\ UNCHANGED <<messages, store, started, gone, crashed, failed, deltas,
                   updates>>

\* ChannelDtmfReceived (lines 65-210): '5' records, '6' lists the stored
\* recordings, any other digit falls through the switch
channelDtmfReceivedCallback(c, digit) ==
    /\ ~crashed
    /\ started[c]
    /\ ~gone[c]
    /\ DtmfCount(Channels) < MaxDtmf
    /\ dtmf' = [dtmf EXCEPT ![c][digit] = @ + 1]
    /\ CASE digit = "5" ->
              /\ pending' = pending (+) One(Item(c, "record", nextId))
              /\ issued' = Bump(issued, c, "record")
              /\ nextId' = nextId + 1
         [] digit = "6" ->
              /\ pending' = pending (+) One(Item(c, "listStored", 0))
              /\ issued' = Bump(issued, c, "listStored")
              /\ nextId' = nextId
         [] OTHER ->
              UNCHANGED <<pending, issued, nextId>>
    /\ UNCHANGED <<messages, store, started, gone, crashed, failed, deltas,
                   updates>>

\* answerChannelCallback that starts both greeting playbacks at once instead
\* of waiting for the PlaybackFinished of the first
answerChannelCallback_playsBoth(it, err) ==
    /\ Completes(it, "answer", err)
    /\ pending' = ((pending (-) One(it))
                      (+) One(Item(it.ch, "play_leavemsg", 0)))
                      (+) One(Item(it.ch, "play_next", 0))
    /\ issued' = Bump(Bump(issued, it.ch, "play_leavemsg"), it.ch, "play_next")
    /\ failed' = MarkFailed(it.ch, err)
    /\ UNCHANGED <<messages, store, nextId, started, gone, crashed, dtmf,
                   deltas, updates>>

\* callback of channel.answer (lines 223-253): err is not looked at
answerChannelCallback(it, err) ==
    /\ Completes(it, "answer", err)
    /\ pending' = (pending (-) One(it)) (+) One(Item(it.ch, "play_leavemsg", 0))
    /\ issued' = Bump(issued, it.ch, "play_leavemsg")
    /\ failed' = MarkFailed(it.ch, err)
    /\ UNCHANGED <<messages, store, nextId, started, gone, crashed, dtmf,
                   deltas, updates>>

\* callback of every channel.play, function (err) {} (lines 115, 152, 192,
\* 205, 244, 251), when the server refuses the playback: no event follows
playCallback(it) ==
    /\ Completes(it, it.kind, TRUE)
    /\ it.kind \in {"play_leavemsg", "play_next", "play_msgsaved",
                    "play_nomore", "play_recording"}
    /\ pending' = pending (-) One(it)
    /\ failed' = MarkFailed(it.ch, TRUE)
    /\ UNCHANGED <<messages, store, nextId, started, gone, crashed, issued,
                   dtmf, deltas, updates>>

\* PlaybackFinished of the greeting (lines 238-246)
leaveMessageCallback(it) ==
    /\ Completes(it, "play_leavemsg", FALSE)
    /\ pending' = (pending (-) One(it)) (+) One(Item(it.ch, "play_next", 0))
    /\ issued' = Bump(issued, it.ch, "play_next")
    /\ UNCHANGED <<messages, store, nextId, started, gone, crashed, dtmf,
                   failed, deltas, updates>>

\* playbackFinishedUnheard with a hangup issued once vm-nomore has finished
playbackFinishedUnheard_hangsUp(it) ==
    /\ Completes(it, it.kind, FALSE)
    /\ it.kind \in {"play_next", "play_nomore"}
    /\ IF it.kind = "play_nomore"
       THEN /\ pending' = (pending (-) One(it)) (+) One(Item(it.ch, "hangup", 0))
            /\ issued' = Bump(issued, it.ch, "hangup")
       ELSE /\ pending' = pending (-) One(it)
            /\ issued' = issued
    /\ UNCHANGED <<messages, store, nextId, started, gone, crashed, dtmf,
                   failed, deltas, updates>>

\* playbackFinishedUnheard as it would be if the PlaybackFinished of the
\* second greeting playback ran the listener of the first again
playbackFinishedUnheard_reenters(it) ==
    /\ Completes(it, it.kind, FALSE)
    /\ it.kind \in {"play_next", "play_nomore"}
    /\ IF it.kind = "play_next"
       THEN /\ pending' = (pending (-) One(it)) (+) One(Item(it.ch, "play_next", 0))
            /\ issued' = Bump(issued, it.ch, "play_next")
       ELSE /\ pending' = pending (-) One(it)
            /\ issued' = issued
    /\ UNCHANGED <<messages, store, nextId, started, gone, crashed, dtmf,
                   failed, deltas, updates>>

\* PlaybackFinished of a playback nobody listens to: vm-next (lines 188, 240)
\* and vm-nomore (line 145 with the branch of line 148)
playbackFinishedUnheard(it) ==
    /\ Completes(it, it.kind, FALSE)
    /\ it.kind \in {"play_next", "play_nomore"}
    /\ pending' = pending (-) One(it)
    /\ UNCHANGED <<messages, store, nextId, started, gone, crashed, issued,
                   dtmf, failed, deltas, updates>>

\* callback of channel.record, function (err) {} (line 126), when the server
\* refuses or fails the recording: nothing is stored, no event follows
recordCallback(it) ==
    /\ Completes(it, "record", TRUE)
    /\ pending' = pending (-) One(it)
    /\ failed' = MarkFailed(it.ch, TRUE)
    /\ UNCHANGED <<messages, store, nextId, started, gone, crashed, issued,
                   dtmf, deltas, updates>>

\* recordingFinishedCallback with the mailbox updated before the announcement
recordingFinishedCallback_appliesDelta(it) ==
    /\ Completes(it, "record", FALSE)
    /\ store' = Append(store, it.arg)
    /\ messages' = messages + 1
    /\ deltas' = Append(deltas, [ch |-> it.ch, d |-> 1])
    /\ updates' = Append(updates, [ch |-> it.ch, newMessages |-> messages'])
    /\ pending' = ((pending (-) One(it))
                      (+) One(Item(it.ch, "update", messages')))
                      (+) One(Item(it.ch, "play_msgsaved", 0))
    /\ issued' = Bump(Bump(issued, it.ch, "update"), it.ch, "play_msgsaved")
    /\ UNCHANGED <<nextId, started, gone, crashed, dtmf, failed>>

\* RecordingFinished (lines 85-117): the recording is now stored; announce it
recordingFinishedCallback(it) ==
    /\ Completes(it, "record", FALSE)
    /\ store' = Append(store, it.arg)
    /\ pending' = (pending (-) One(it)) (+) One(Item(it.ch, "play_msgsaved", 0))
    /\ issued' = Bump(issued, it.ch, "play_msgsaved")
    /\ UNCHANGED <<messages, nextId, started, gone, crashed, dtmf, failed,
                   deltas, updates>>

\* messageSavedCallback with the update built before the increment
messageSavedCallback_updateFirst(it) ==
    /\ Completes(it, "play_msgsaved", FALSE)
    /\ messages' = messages + 1
    /\ deltas' = Append(deltas, [ch |-> it.ch, d |-> 1])
    /\ updates' = Append(updates, [ch |-> it.ch, newMessages |-> messages])
    /\ pending' = ((pending (-) One(it))
                      (+) One(Item(it.ch, "update", messages)))
                      (+) One(Item(it.ch, "hangup", 0))
    /\ issued' = Bump(Bump(issued, it.ch, "update"), it.ch, "hangup")
    /\ UNCHANGED <<store, nextId, started, gone, crashed, dtmf, failed>>

\* PlaybackFinished of vm-msgsaved (lines 99-110)
messageSavedCallback(it) ==
    /\ Completes(it, "play_msgsaved", FALSE)
    /\ messages' = messages + 1
    /\ deltas' = Append(deltas, [ch |-> it.ch, d |-> 1])
    /\ updates' = Append(updates, [ch |-> it.ch, newMessages |-> messages'])
    /\ pending' = ((pending (-) One(it))
                      (+) One(Item(it.ch, "update", messages')))
                      (+) One(Item(it.ch, "hangup", 0))
    /\ issued' = Bump(Bump(issued, it.ch, "update"), it.ch, "hangup")
    /\ UNCHANGED <<store, nextId, started, gone, crashed, dtmf, failed>>

\* callback of mailbox.update, function (err) {} (lines 107, 186)
mailboxUpdateCallback(it, err) ==
    /\ Completes(it, "update", err)
    /\ pending' = pending (-) One(it)
    /\ UNCHANGED <<messages, store, nextId, started, gone, crashed, issued,
                   dtmf, failed, deltas, updates>>

\* callback of channel.hangup, function (err) {} (line 109); without an error
\* the server has hung the channel up
hangupCallback(it, err) ==
    /\ Completes(it, "hangup", err)
    /\ pending' = pending (-) One(it)
    /\ gone' = IF err THEN gone ELSE [gone EXCEPT ![it.ch] = TRUE]
    /\ UNCHANGED <<messages, store, nextId, started, crashed, issued, dtmf,
                   failed, deltas, updates>>

\* listStoredRecordingsCallback with the count decremented (and the mailbox
\* updated) also when there is nothing to play
listStoredRecordingsCallback_decrementsWhenEmpty(it, err) ==
    /\ Completes(it, "listStored", err)
    /\ IF err
       THEN /\ crashed' \in BOOLEAN
            /\ pending' = pending (-) One(it)
            /\ issued' = issued
            /\ UNCHANGED <<messages, deltas, updates>>
       ELSE /\ crashed' = crashed
            /\ IF Len(store) = 0
               THEN /\ messages' = messages - 1
                    /\ deltas' = Append(deltas, [ch |-> it.ch, d |-> -1])
                    /\ updates' = Append(updates,
                                     [ch |-> it.ch, newMessages |-> messages'])
                    /\ pending' = ((pending (-) One(it))
                                     (+) One(Item(it.ch, "update", messages')))
                                     (+) One(Item(it.ch, "play_nomore", 0))
                    /\ issued' = Bump(Bump(issued, it.ch, "update"),
                                      it.ch, "play_nomore")
               ELSE /\ pending' = (pending (-) One(it))
                         (+) One(Item(it.ch, "play_recording", store[Len(store)]))
                    /\ issued' = Bump(issued, it.ch, "play_recording")
                    /\ UNCHANGED <<messages, deltas, updates>>
    /\ failed' = MarkFailed(it.ch, err)
    /\ UNCHANGED <<store, nextId, started, gone, dtmf>>

\* listStoredRecordingsCallback that takes the first element of the list,
\* recordings[0], instead of the last
listStoredRecordingsCallback_first(it, err) ==
    /\ Completes(it, "listStored", err)
    /\ IF err
       THEN /\ crashed' \in BOOLEAN
            /\ pending' = pending (-) One(it)
            /\ issued' = issued
       ELSE /\ crashed' = crashed
            /\ IF Len(store) = 0
               THEN /\ pending' = (pending (-) One(it))
                                     (+) One(Item(it.ch, "play_nomore", 0))
                    /\ issued' = Bump(issued, it.ch, "play_nomore")
               ELSE /\ pending' = (pending (-) One(it))
                         (+) One(Item(it.ch, "play_recording", store[1]))
                    /\ issued' = Bump(issued, it.ch, "play_recording")
    /\ failed' = MarkFailed(it.ch, err)
    /\ UNCHANGED <<messages, store, nextId, started, gone, dtmf, deltas,
                   updates>>

\* callback of ari.recordings.listStored (lines 143-207).  With an error
\* `recordings` is undefined and line 146 throws a TypeError: the exception
\* either ends the process or is swallowed by the caller of the callback
listStoredRecordingsCallback(it, err) ==
    /\ Completes(it, "listStored", err)
    /\ IF err
       THEN /\ crashed' \in BOOLEAN
            /\ pending' = pending (-) One(it)
            /\ issued' = issued
       ELSE /\ crashed' = crashed
            /\ IF Len(store) = 0
               THEN /\ pending' = (pending (-) One(it))
                                     (+) One(Item(it.ch, "play_nomore", 0))
                    /\ issued' = Bump(issued, it.ch, "play_nomore")
               ELSE /\ pending' = (pending (-) One(it))
                         (+) One(Item(it.ch, "play_recording", store[Len(store)]))
                    /\ issued' = Bump(issued, it.ch, "play_recording")
    /\ failed' = MarkFailed(it.ch, err)
    /\ UNCHANGED <<messages, store, nextId, started, gone, dtmf, deltas,
                   updates>>

\* latestMessageCallback with the count decremented before the delete
latestMessageCallback_deltaFirst(it) ==
    /\ Completes(it, "play_recording", FALSE)
    /\ messages' = messages - 1
    /\ deltas' = Append(deltas, [ch |-> it.ch, d |-> -1])
    /\ updates' = Append(updates, [ch |-> it.ch, newMessages |-> messages'])
    /\ pending' = ((pending (-) One(it))
                      (+) One(Item(it.ch, "update", messages')))
                      (+) One(Item(it.ch, "deleteStored", it.arg))
    /\ issued' = Bump(Bump(issued, it.ch, "update"), it.ch, "deleteStored")
    /\ UNCHANGED <<store, nextId, started, gone, crashed, dtmf, failed>>

\* PlaybackFinished of the latest message (lines 166-195)
latestMessageCallback(it) ==
    /\ Completes(it, "play_recording", FALSE)
    /\ pending' = (pending (-) One(it)) (+) One(Item(it.ch, "deleteStored", it.arg))
    /\ issued' = Bump(issued, it.ch, "deleteStored")
    /\ UNCHANGED <<messages, store, nextId, started, gone, crashed, dtmf,
                   failed, deltas, updates>>

\* callback of recording.deleteStored (lines 178-194): err is not looked at.
\* The server deletes the recording when it has it and reports an error when
\* it does not (or cannot)
deleteStoredRecordingCallback(it, err) ==
    /\ Completes(it, "deleteStored", err)
    /\ ~err => InStore(it.arg)
    /\ store' = IF err THEN store ELSE RemoveName(store, it.arg)
    /\ messages' = messages - 1
    /\ deltas' = Append(deltas, [ch |-> it.ch, d |-> -1])
    /\ updates' = Append(updates, [ch |-> it.ch, newMessages |-> messages'])
    /\ pending' = ((pending (-) One(it))
                      (+) One(Item(it.ch, "update", messages')))
                      (+) One(Item(it.ch, "play_next", 0))
    /\ issued' = Bump(Bump(issued, it.ch, "update"), it.ch, "play_next")
    /\ failed' = MarkFailed(it.ch, err)
    /\ UNCHANGED <<nextId, started, gone, crashed, dtmf>>

Next ==
    \/ \E c \in Channels : stasisStartCallback(c)
    \/ \E c \in Channels, digit \in Digits : channelDtmfReceivedCallback(c, digit)
    \/ \E it \in BagToSet(pending), err \in BOOLEAN : answerChannelCallback(it, err)
    \/ \E it \in BagToSet(pending) : playCallback(it)
    \/ \E it \in BagToSet(pending) : leaveMessageCallback(it)
    \/ \E it \in BagToSet(pending) : playbackFinishedUnheard(it)
    \/ \E it \in BagToSet(pending) : recordCallback(it)
    \/ \E it \in BagToSet(pending) : recordingFinishedCallback(it)
    \/ \E it \in BagToSet(pending) : messageSavedCallback(it)
    \/ \E it \in BagToSet(pending), err \in BOOLEAN : mailboxUpdateCallback(it, err)
    \/ \E it \in BagToSet(pending), err \in BOOLEAN : hangupCallback(it, err)
    \/ \E it \in BagToSet(pending), err \in BOOLEAN : listStoredRecordingsCallback(it, err)
    \/ \E it \in BagToSet(pending) : latestMessageCallback(it)
    \/ \E it \in BagToSet(pending), err \in BOOLEAN : deleteStoredRecordingCallback(it, err)

Spec == Init /\ [][Next]_vars

\* ---------------------------------------------------------------- observations

\* the commands the server has not answered yet, per channel
CommandKinds == Kinds \ {"listStored"}

OutstandingItems(c, K) == {it \in BagToSet(pending) : it.ch = c /\ it.kind \in K}

Outstanding(c, K) ==
    BagCardinality([it \in OutstandingItems(c, K) |-> CopiesIn(it, pending)])

\* what a step does, read off the state before and after it
IssuedIn(c, k) == issued'[c][k] > issued[c][k]

NothingIssuedIn(c) == issued'[c] = issued[c]

\* a command of kind k of channel c is answered in this step
DoneIn(c, k) ==
    \E it \in BagToSet(pending) :
        /\ it.ch = c
        /\ it.kind = k
        /\ CopiesIn(it, pending') < CopiesIn(it, pending)

DeltaIn(c, d) ==
    /\ Len(deltas') = Len(deltas) + 1
    /\ deltas'[Len(deltas')] = [ch |-> c, d |-> d]

CountUnchanged ==
    /\ messages' = messages
    /\ deltas' = deltas
    /\ updates' = updates

HasDelta(c, d) == \E i \in 1..Len(deltas) : deltas[i] = [ch |-> c, d |-> d]

\* ---------------------------------------------------------------- claims

\* C1: for every channel, in every reachable state, at most one command issued
\* on its behalf (answer, play, record, delete-recording, update-mailbox,
\* hangup) is outstanding.
C1_AtMostOneOutstanding ==
    \A c \in Channels : Outstanding(c, CommandKinds) <= 1

\* C2: the newMessages value passed to any mailbox update is never negative.
C2_NewMessagesNeverNegative ==
    \A i \in 1..Len(updates) : updates[i].newMessages >= 0

\* C3: no mailbox delta is lost: every delta comes with one update, and the
\* newMessages of the i-th update is the sum of the first i deltas applied by
\* all channels, in the order the updates are issued.
C3_NoLostDelta ==
    /\ Len(updates) = Len(deltas)
    /\ \A i \in 1..Len(updates) :
          /\ updates[i].ch = deltas[i].ch
          /\ updates[i].newMessages = SumDeltas(SubSeq(deltas, 1, i))

\* two channels have each applied a delta, and an update was sent for both
C3_Witness ==
    /\ Len(deltas) >= 2
    /\ deltas[1].ch # deltas[2].ch
    /\ Len(updates) >= 2

\* C4: a '5' or '6' that arrives for a channel while one of its commands
\* (answer, a playback, a record) is still outstanding is ignored: no command
\* is issued in response and nothing of the channel changes.
C4_DtmfIgnoredWhileBusy ==
    [][\A c \in Channels :
          ((dtmf'[c]["5"] > dtmf[c]["5"] \/ dtmf'[c]["6"] > dtmf[c]["6"])
             /\ Outstanding(c, ChannelKinds \ {"hangup"}) > 0)
          => (NothingIssuedIn(c) /\ pending' = pending)]_vars

\* C5 as stated: when RecordingFinished is received (the step that issues the
\* 'message saved' playback) the delta +1 is applied and the update is issued.
C5_DeltaAtRecordingFinished ==
    [][\A c \in Channels :
          (DoneIn(c, "record") /\ IssuedIn(c, "play_msgsaved"))
          => (DeltaIn(c, 1) /\ IssuedIn(c, "update"))]_vars

\* C5 amended: RecordingFinished only issues the 'message saved' playback and
\* leaves the count alone; the delta +1 is applied, and the update carrying
\* the new count issued, in the step that receives the PlaybackFinished of
\* that playback, so after the playback has finished.
C5_DeltaAtMessageSaved ==
    [][\A c \in Channels :
          /\ (DoneIn(c, "record") /\ IssuedIn(c, "play_msgsaved"))
                => (CountUnchanged /\ ~IssuedIn(c, "update"))
          /\ DeltaIn(c, 1)
                => /\ DoneIn(c, "play_msgsaved")
                   /\ IssuedIn(c, "update")
                   /\ updates'[Len(updates')].newMessages = messages + 1
          /\ (DoneIn(c, "play_msgsaved") /\ ~failed'[c]) => DeltaIn(c, 1)]_vars

\* a recording finished, its announcement finished, and the count went up
C5_Witness ==
    \E c \in Channels :
        /\ issued[c]["play_msgsaved"] > 0
        /\ Outstanding(c, {"play_msgsaved"}) = 0
        /\ HasDelta(c, 1)
        /\ messages = 1

\* C6 as stated: after '6' with no stored recording, once the 'no more
\* messages' playback has finished and every command of the channel has
\* completed without an error, a hangup has been issued for the channel.
C6_HangupAfterNoMore ==
    \A c \in Channels :
        (issued[c]["play_nomore"] > 0 /\ ~failed[c] /\ Outstanding(c, Kinds) = 0)
        => issued[c]["hangup"] > 0

\* C6 amended: on '6' with no stored recording the 'no more messages'
\* playback is issued (and only then); when it finishes no command is issued,
\* in particular no hangup, and the channel is left up.
C6_NoMoreThenNothing ==
    [][\A c \in Channels :
          /\ IssuedIn(c, "play_nomore")
                => (DoneIn(c, "listStored") /\ Len(store) = 0)
          /\ (DoneIn(c, "listStored") /\ Len(store) = 0 /\ ~failed'[c])
                => IssuedIn(c, "play_nomore")
          /\ DoneIn(c, "play_nomore")
                => (NothingIssuedIn(c) /\ gone' = gone)]_vars

\* the 'no more messages' playback has finished on a channel that never
\* failed, and no hangup was issued for it
C6_Witness ==
    \E c \in Channels :
        /\ issued[c]["play_nomore"] > 0
        /\ Outstanding(c, Kinds) = 0
        /\ ~failed[c]
        /\ issued[c]["hangup"] = 0
        /\ ~gone[c]

\* C7: handling '6' when there is no stored recording (the digit, the empty
\* listStored answer, the end of the 'no more messages' playback) leaves the
\* shared count unchanged and issues no mailbox update.
C7_NoMoreLeavesCount ==
    [][\A c \in Channels :
          (\/ (dtmf'[c]["6"] > dtmf[c]["6"] /\ Len(store) = 0)
           \/ (DoneIn(c, "listStored") /\ Len(store) = 0)
           \/ DoneIn(c, "play_nomore"))
          => (CountUnchanged /\ ~IssuedIn(c, "update"))]_vars

\* a 'no more messages' playback is in flight
C7_Witness ==
    \E c \in Channels :
        /\ dtmf[c]["6"] > 0
        /\ Outstanding(c, {"play_nomore"}) > 0

\* C8 as stated (its last step): after '6' with a stored recording, once the
\* delete has completed, the delta -1 is applied and every command of the
\* channel has completed without an error, a hangup has been issued for it.
C8_HangupAfterNextMessage ==
    \A c \in Channels :
        (HasDelta(c, -1) /\ ~failed[c] /\ Outstanding(c, Kinds) = 0)
        => issued[c]["hangup"] > 0

\* C8 amended: the recording is played only after a non-empty listStored
\* answer; delete-recording is issued when that playback finishes; the delta
\* -1 is applied when the delete completes, in the same step as the update
\* and the 'next message' playback; no hangup is issued in that step, and the
\* end of the 'next message' playback issues nothing.
C8_PlayDeleteDecrementNext ==
    [][\A c \in Channels :
          /\ IssuedIn(c, "play_recording")
                => (DoneIn(c, "listStored") /\ Len(store) > 0)
          /\ IssuedIn(c, "deleteStored") => DoneIn(c, "play_recording")
          /\ (DoneIn(c, "play_recording") /\ ~failed'[c])
                => IssuedIn(c, "deleteStored")
          /\ DeltaIn(c, -1)
                => /\ DoneIn(c, "deleteStored")
                   /\ IssuedIn(c, "update")
                   /\ IssuedIn(c, "play_next")
                   /\ ~IssuedIn(c, "hangup")
          /\ DoneIn(c, "deleteStored") => DeltaIn(c, -1)
          /\ DoneIn(c, "play_next") => NothingIssuedIn(c)]_vars

\* the whole '6' path has run on a channel that never failed: the recording
\* is deleted, the count decremented, every command completed, no hangup
C8_Witness ==
    \E c \in Channels :
        /\ HasDelta(c, -1)
        /\ issued[c]["deleteStored"] > 0
        /\ Outstanding(c, Kinds) = 0
        /\ ~failed[c]
        /\ issued[c]["hangup"] = 0

\* C9: once a hangup has been issued for a channel, a later completion event
\* of that channel causes no command to be issued and no change of the count.
C9_EventsAfterHangupDropped ==
    [][\A c \in Channels :
          (issued[c]["hangup"] > 0 /\ \E k \in Kinds : DoneIn(c, k))
          => (NothingIssuedIn(c) /\ ~DeltaIn(c, 1) /\ ~DeltaIn(c, -1))]_vars

\* C10: once a command of a channel (answer, play, record, listStored,
\* delete-recording) has completed with an error, in that step and ever after
\* no command is issued for the channel and its steps leave the count alone.
C10_FailedIsTerminal ==
    [][\A c \in Channels :
          failed'[c]
          => (NothingIssuedIn(c) /\ ~DeltaIn(c, 1) /\ ~DeltaIn(c, -1))]_vars

\* a '5' or a '6' is received by channel c in this step
CycleDigitIn(c) == dtmf'[c]["5"] > dtmf[c]["5"] \/ dtmf'[c]["6"] > dtmf[c]["6"]

\* C11 as stated: once a '5' or '6' has started a cycle on a channel, no
\* later digit on that channel starts another record or listStored.
C11_SingleCycle ==
    [][\A c \in Channels :
          (CycleDigitIn(c) /\ dtmf[c]["5"] + dtmf[c]["6"] > 0)
          => (~IssuedIn(c, "record") /\ ~IssuedIn(c, "listStored"))]_vars

\* C11 amended: a channel is not limited to one cycle.  Every '5' it receives
\* issues one record and every '6' one listStored, whatever cycle ran before,
\* and the delete-and-advance step leaves the DTMF listener on and the
\* channel up, so the channel goes on accepting digits.
C11_EveryDigitStartsCycle ==
    [][\A c \in Channels :
          /\ dtmf'[c]["5"] > dtmf[c]["5"]
                => issued'[c]["record"] = issued[c]["record"] + 1
          /\ dtmf'[c]["6"] > dtmf[c]["6"]
                => issued'[c]["listStored"] = issued[c]["listStored"] + 1
          /\ DoneIn(c, "deleteStored")
                => (started'[c] /\ gone'[c] = gone[c])]_vars

\* a channel has run the whole '6' path (delete done, 'next message' playback
\* over) and a further '6' has started a second listStored on it
C11_Witness ==
    \E c \in Channels :
        /\ HasDelta(c, -1)
        /\ dtmf[c]["6"] = 2
        /\ issued[c]["listStored"] = 2
        /\ Outstanding(c, {"listStored"}) = 1
        /\ Outstanding(c, Kinds \ {"listStored"}) = 0

\* C12: a hangup is issued only in the step that receives the PlaybackFinished
\* of the 'message saved' playback, and at most one hangup is issued per
\* channel.
C12_HangupOnceAfterSaved ==
    [][\A c \in Channels :
          IssuedIn(c, "hangup")
          => /\ DoneIn(c, "play_msgsaved")
             /\ issued[c]["hangup"] = 0
             /\ issued'[c]["hangup"] = 1]_vars

\* C13: a digit other than '5' or '6' is a no-op in every state: it issues no
\* command, registers no listener (no recording is created, nothing is added
\* to what the server will answer), and leaves the channels and the shared
\* count unchanged.
C13_OtherDigitNoOp ==
    [][\A c \in Channels :
          dtmf'[c]["1"] > dtmf[c]["1"]
          => /\ issued' = issued
             /\ pending' = pending
             /\ nextId' = nextId
             /\ CountUnchanged
             /\ UNCHANGED <<store, started, gone, crashed, failed>>]_vars

\* another digit was received by a channel that has a command in flight and
\* by one that has none
C13_Witness ==
    /\ \E c \in Channels : dtmf[c]["1"] > 0 /\ Outstanding(c, Kinds) > 0
    /\ \E c \in Channels : dtmf[c]["1"] > 0 /\ Outstanding(c, Kinds) = 0

\* C14: on session entry the greeting playback is issued only in the step in
\* which the answer command completes, and the 'next message instructions'
\* playback of the opening (the one not issued by the delete step) only in
\* the step that receives the PlaybackFinished of the greeting.
C14_OpeningSequenced ==
    [][\A c \in Channels :
          /\ IssuedIn(c, "answer") => (~started[c] /\ started'[c])
          /\ IssuedIn(c, "play_leavemsg")
                => (DoneIn(c, "answer") /\ ~IssuedIn(c, "play_next"))
          /\ (IssuedIn(c, "play_next") /\ ~DeltaIn(c, -1))
                => (DoneIn(c, "play_leavemsg")
                      /\ Outstanding(c, {"answer"}) = 0)]_vars

\* the opening has run to its second playback: answer completed, the greeting
\* finished, the instructions playback is in flight, no delete step has run
C14_Witness ==
    \E c \in Channels :
        /\ issued[c]["play_leavemsg"] = 1
        /\ Outstanding(c, {"answer", "play_leavemsg"}) = 0
        /\ Outstanding(c, {"play_next"}) = 1
        /\ ~HasDelta(c, -1)

\* a command of kind k about recording n is issued for channel c in this step
NewItemIn(c, k, n) ==
    \E dd \in BOOLEAN :
        LET it == [ch |-> c, kind |-> k, arg |-> n, dead |-> dd]
        IN CopiesIn(it, pending') > CopiesIn(it, pending)

\* a command of kind k about recording n of channel c is answered in this step
AnsweredItemIn(c, k, n) ==
    \E dd \in BOOLEAN :
        LET it == [ch |-> c, kind |-> k, arg |-> n, dead |-> dd]
        IN CopiesIn(it, pending') < CopiesIn(it, pending)

\* C15: on '6' the recording played is the last element of the list of stored
\* recordings, none is played (the 'no more messages' announcement instead)
\* exactly when the list is empty, and the recording whose delete is issued
\* is the one whose playback has just finished.
C15_LatestPlayedThenDeleted ==
    [][\A c \in Channels :
          /\ IssuedIn(c, "play_recording")
                => /\ DoneIn(c, "listStored")
                   /\ Len(store) > 0
                   /\ NewItemIn(c, "play_recording", store[Len(store)])
          /\ IssuedIn(c, "play_nomore")
                => (DoneIn(c, "listStored") /\ Len(store) = 0)
          /\ (DoneIn(c, "listStored") /\ ~failed'[c])
                => /\ (Len(store) = 0) <=> IssuedIn(c, "play_nomore")
                   /\ (Len(store) > 0) <=> IssuedIn(c, "play_recording")
          /\ IssuedIn(c, "deleteStored")
                => \E n \in 1..nextId :
                      /\ AnsweredItemIn(c, "play_recording", n)
                      /\ NewItemIn(c, "deleteStored", n)]_vars

\* two recordings were stored, the latest was chosen and played, and its
\* delete is in flight
C15_Witness ==
    /\ Len(store) >= 2
    /\ \E it \in BagToSet(pending) :
          /\ it.kind = "deleteStored"
          /\ it.arg = store[Len(store)]

\* the deletes of recording n that the server has not answered yet
DeletesInFlight(n) ==
    {it \in BagToSet(pending) : it.kind = "deleteStored" /\ it.arg = n}

\* C16: each stored recording is deleted at most once and causes at most one
\* -1 delta: a delete is issued only for a recording that is still stored and
\* has no delete in flight, and the answer to a delete of a recording that is
\* already gone from the store (deleted, and counted, before) applies no delta.
C16_DeletedAtMostOnce ==
    [][\A c \in Channels : \A n \in 1..nextId :
          /\ NewItemIn(c, "deleteStored", n)
                => (InStore(n) /\ DeletesInFlight(n) = {})
          /\ (AnsweredItemIn(c, "deleteStored", n) /\ ~InStore(n))
                => ~DeltaIn(c, -1)]_vars

\* C17: when delete-recording completes with an error (the store is left as
\* it was), the shared count is unchanged and no mailbox update is issued.
C17_DeleteErrorLeavesCount ==
    [][\A c \in Channels :
          (DoneIn(c, "deleteStored") /\ store' = store)
          => (CountUnchanged /\ ~IssuedIn(c, "update"))]_vars

\* how many -1 deltas channel c has applied
RECURSIVE Decrements(_, _)
Decrements(c, s) ==
    IF s = <<>> THEN 0
    ELSE (IF s[Len(s)] = [ch |-> c, d |-> -1] THEN 1 ELSE 0)
           + Decrements(c, SubSeq(s, 1, Len(s) - 1))

\* C18: per channel the greeting is played at most once and the 'next message
\* instructions' playback that follows it is issued exactly once, when the
\* greeting finishes: every vm-next playback is either that one or the one of
\* a delete step, so the end of a vm-next playback starts no further playback.
C18_InstructionsOnce ==
    \A c \in Channels :
        /\ issued[c]["answer"] <= 1
        /\ issued[c]["play_leavemsg"] <= 1
        /\ issued[c]["play_next"] - Decrements(c, deltas) \in {0, 1}
        /\ issued[c]["play_next"] - Decrements(c, deltas)
              <= issued[c]["play_leavemsg"] - Outstanding(c, {"play_leavemsg"})
        /\ (issued[c]["play_leavemsg"] = 1
              /\ Outstanding(c, {"play_leavemsg"}) = 0
              /\ ~failed[c])
           => issued[c]["play_next"] - Decrements(c, deltas) = 1

\* the instructions playback that followed the greeting has finished on a
\* channel that never failed, and nothing of the channel is in flight
C18_Witness ==
    \E c \in Channels :
        /\ issued[c]["play_next"] = 1
        /\ Decrements(c, deltas) = 0
        /\ ~failed[c]
        /\ Outstanding(c, Kinds) = 0
        /\ dtmf[c]["5"] + dtmf[c]["6"] = 0
====
